---- MODULE Spec2Model ----
(***************************************************************************)
(* A model of simple-yt-downloader.                                        *)
(*                                                                         *)
(* Two components of the program are modelled, each as a state machine:    *)
(*                                                                         *)
(*   "runner"  one invocation of download_playlist_concurrently            *)
(*             (yt_downloader.py:186-208): the submitting thread, the      *)
(*             ThreadPoolExecutor's workers, as_completed, progress_lock   *)
(*             and the status sink;                                        *)
(*   "app"     the import-time get_ffmpeg_location call that fills         *)
(*             FFMPEG_CACHE (yt_downloader.py:39), the two button          *)
(*             handlers start_video_download / start_audio_download, the   *)
(*             fetch routine download_and_extract_ffmpeg and the threads   *)
(*             the handlers spawn.                                         *)
(*                                                                         *)
(* The variable `component` says which machine a behaviour runs; Init      *)
(* starts either one.                                                      *)
(***************************************************************************)
EXTENDS Naturals, Sequences, FiniteSets

\* ---------------------------------------------------------------- bounds
\* Largest playlist handed to the runner.
MaxItems == 3
\* Largest value os.cpu_count() returns in the model (0 stands for None).
MaxCpu == 2
\* Most button presses in one run of the application.
MaxClicks == 2

\* `os.cpu_count() or 4` (yt_downloader.py:191)
DefaultWorkers == 4

VARIABLES
    component,      \* "runner" | "app"
    \* ---- download_playlist_concurrently -------------------------------
    pc,             \* position of the submitting thread
    total_videos,   \* len(video_urls); item i is video_urls[i-1]
    cpu_count,      \* os.cpu_count(), 0 for None
    fstate,         \* per item: the state of its future
    queue,          \* the executor's FIFO work queue
    nextSubmit,     \* next index of the dict comprehension
    finishedSet,    \* as_completed: finished at its start, not yet yielded
    waiterOn,       \* as_completed: waiter installed
    waiterQ,        \* as_completed: waiter.finished_futures
    yielded,        \* futures as_completed has yielded
    cur,            \* `future` / `url` of the current loop iteration, 0: none
    completed,      \* the progress counter
    incs,           \* per item: increments of `completed` it caused
    calls,          \* per item: invocations of download_func
    lock,           \* progress_lock: "free" | "runner" | "other"
    otherLeft,      \* a concurrent batch still has an increment to make
    sink,           \* what the runner passed to status_callback, in order
    lateReport,     \* download_func reported after the runner's last message
    \* ---- locator, handlers ---------------------------------------------
    appPc,          \* "import" | "mainloop"
    frozen,         \* hasattr(sys, "_MEIPASS")
    FFMPEG_CACHE,   \* (available, ffmpeg_path)
    exe,            \* per directory: ffmpeg.exe exists there
    tmpZips,        \* temporary archives on disk
    strays,         \* extracted files left outside <dir>/ffmpeg.exe
    clicks,         \* handler invocations so far
    units,          \* threads spawned, in order
    lastLocate,     \* record of the latest get_ffmpeg_location call
    lastHandler,    \* record of the latest handler invocation
    fetchFailed,    \* some fetch has failed
    refetched       \* a fetch was attempted after a failed one

runnerVars == <<pc, total_videos, cpu_count, fstate, queue, nextSubmit,
                finishedSet, waiterOn, waiterQ, yielded, cur, completed,
                incs, calls, lock, otherLeft, sink, lateReport>>
appVars == <<appPc, frozen, FFMPEG_CACHE, exe, tmpZips, strays, clicks,
             units, lastLocate, lastHandler, fetchFailed, refetched>>
vars == <<component, runnerVars, appVars>>

Items == 1..total_videos

\* ------------------------------------------------------------ status sink
Msg(kind, a, b) == [kind |-> kind, a |-> a, b |-> b]

\* status_callback(message)
status_callback(s, m) == Append(s, m)

\* --------------------------------------------------------------- runner
\* max_workers = os.cpu_count() or 4
\* (max_workers_fixed: the processor count ignored.)
max_workers_fixed == DefaultWorkers
max_workers == IF cpu_count = 0 THEN DefaultWorkers ELSE cpu_count

Done(i) == fstate[i] \in {"true", "false", "raised"}
Running == {i \in Items : fstate[i] = "running"}

\* completed = 0; status_callback(f"Found {total_videos} items. ...")
Announce ==
    /\ component = "runner" /\ pc = "announce"
    /\ sink' = status_callback(sink, Msg("found", total_videos, max_workers))
    /\ pc' = "submit"
    /\ UNCHANGED <<component, total_videos, cpu_count, fstate, queue,
                   nextSubmit, finishedSet, waiterOn, waiterQ, yielded, cur,
                   completed, incs, calls, lock, otherLeft, lateReport,
                   appVars>>

\* for url in video_urls: executor.submit(download_func, url, ...)
Submit ==
    /\ component = "runner" /\ pc = "submit"
    /\ nextSubmit <= total_videos
    /\ fstate' = [fstate EXCEPT ![nextSubmit] = "queued"]
    /\ queue' = Append(queue, nextSubmit)
    /\ nextSubmit' = nextSubmit + 1
    /\ UNCHANGED <<component, pc, total_videos, cpu_count, finishedSet,
                   waiterOn, waiterQ, yielded, cur, completed, incs, calls,
                   lock, otherLeft, sink, lateReport, appVars>>

\* as_completed(future_to_url) starts: the futures already finished are
\* collected into a set, a waiter is installed on the others.
BeginAsCompleted ==
    /\ component = "runner" /\ pc = "submit"
    /\ nextSubmit > total_videos
    /\ finishedSet' = {i \in Items : Done(i)}
    /\ waiterOn' = TRUE
    /\ pc' = "iter"
    /\ UNCHANGED <<component, total_videos, cpu_count, fstate, queue,
                   nextSubmit, waiterQ, yielded, cur, completed, incs, calls,
                   lock, otherLeft, sink, lateReport, appVars>>

\* The work item a free worker takes: the executor's queue is FIFO.
\* (QueueNextLifo: a stack instead.)
QueueNextLifo(q) == q[Len(q)]
QueueNext(q) == Head(q)

\* A pool worker takes a work item and calls download_func on it.
Start(i) ==
    /\ component = "runner"
    /\ queue # <<>>
    /\ i = QueueNext(queue)
    /\ Cardinality(Running) < max_workers
    /\ fstate' = [fstate EXCEPT ![i] = "running"]
    /\ calls' = [calls EXCEPT ![i] = @ + 1]
    /\ queue' = SelectSeq(queue, LAMBDA j : j # i)
    /\ UNCHANGED <<component, pc, total_videos, cpu_count, nextSubmit,
                   finishedSet, waiterOn, waiterQ, yielded, cur, completed,
                   incs, lock, otherLeft, sink, lateReport, appVars>>

\* download_video / download_audio call status_callback right before they
\* return: "Completed ...: url" with True, "Error downloading ...: url" with
\* False. A download_func that raises reports nothing itself. The workers'
\* reports are not kept in `sink`; lateReport says whether one came after
\* the runner's terminal message.
Reports(o) == o \in {"true", "false"}

\* download_func returns True, returns False or raises; the future finishes
\* and an installed waiter is told.
Finish(i, o) ==
    /\ component = "runner"
    /\ fstate[i] = "running"
    /\ fstate' = [fstate EXCEPT ![i] = o]
    /\ lateReport' = (lateReport \/ (Reports(o) /\ pc = "returned"))
    /\ waiterQ' = IF waiterOn THEN Append(waiterQ, i) ELSE waiterQ
    /\ UNCHANGED <<component, pc, total_videos, cpu_count, queue, nextSubmit,
                   finishedSet, waiterOn, yielded, cur, completed, incs,
                   calls, lock, otherLeft, sink, appVars>>

\* for future in as_completed(...): the loop ends once every future has
\* been yielded.
\* (LoopExhaustedEarly: a loop over the futures that are ready, which ends
\* when none is.)
LoopExhaustedEarly == finishedSet = {} /\ waiterQ = <<>>
LoopExhausted == yielded = Items

\* The next future of the loop: first those of the initial finished set, in
\* the set's iteration order (any order), then the waiter's, in the order
\* they finished.
IterNext ==
    /\ component = "runner" /\ pc = "iter"
    /\ ~LoopExhausted
    /\ \/ /\ finishedSet # {}
          /\ \E f \in finishedSet :
                /\ cur' = f
                /\ finishedSet' = finishedSet \ {f}
                /\ yielded' = yielded \cup {f}
          /\ UNCHANGED waiterQ
       \/ /\ finishedSet = {}
          /\ waiterQ # <<>>
          /\ cur' = Head(waiterQ)
          /\ waiterQ' = Tail(waiterQ)
          /\ yielded' = yielded \cup {Head(waiterQ)}
          /\ UNCHANGED finishedSet
    /\ pc' = "result"
    /\ UNCHANGED <<component, total_videos, cpu_count, fstate, queue,
                   nextSubmit, waiterOn, completed, incs, calls, lock,
                   otherLeft, sink, lateReport, appVars>>

\* The loop is over; the with block runs executor.shutdown(wait=True).
IterEnd ==
    /\ component = "runner" /\ pc = "iter"
    /\ LoopExhausted
    /\ pc' = "shutdown"
    /\ UNCHANGED <<component, total_videos, cpu_count, fstate, queue,
                   nextSubmit, finishedSet, waiterOn, waiterQ, yielded, cur,
                   completed, incs, calls, lock, otherLeft, sink,
                   lateReport, appVars>>

\* try: future.result() / except Exception: the position after it.
\* (AfterResultPropagating: no except clause, the exception leaves the runner.)
AfterResultPropagating(raised) == IF raised THEN "crashed" ELSE "lock"
AfterResult(raised) == "lock"

TryResult ==
    /\ component = "runner" /\ pc = "result"
    /\ sink' = IF fstate[cur] = "raised"
               THEN status_callback(sink, Msg("exception", cur, 0))
               ELSE sink
    /\ pc' = AfterResult(fstate[cur] = "raised")
    /\ UNCHANGED <<component, total_videos, cpu_count, fstate, queue,
                   nextSubmit, finishedSet, waiterOn, waiterQ, yielded, cur,
                   completed, incs, calls, lock, otherLeft, lateReport,
                   appVars>>

\* with progress_lock: the lock once the block is entered.
\* (LockNotTaken: the increment without the with block.)
LockNotTaken == lock
LockTaken == "runner"

Acquire ==
    /\ component = "runner" /\ pc = "lock"
    /\ lock = "free"
    /\ lock' = LockTaken
    /\ pc' = "incr"
    /\ UNCHANGED <<component, total_videos, cpu_count, fstate, queue,
                   nextSubmit, finishedSet, waiterOn, waiterQ, yielded, cur,
                   completed, incs, calls, otherLeft, sink, lateReport,
                   appVars>>

\* completed += 1
\* (IncrementedTwice: a second increment, as of one in the except clause too.)
IncrementedTwice(c) == c + 2
Incremented(c) == c + 1

Increment ==
    /\ component = "runner" /\ pc = "incr"
    /\ completed' = Incremented(completed)
    /\ incs' = [incs EXCEPT ![cur] = @ + 1]
    /\ pc' = "emit"
    /\ UNCHANGED <<component, total_videos, cpu_count, fstate, queue,
                   nextSubmit, finishedSet, waiterOn, waiterQ, yielded, cur,
                   calls, lock, otherLeft, sink, lateReport, appVars>>

\* status_callback(f"Downloads completed {completed}/{total_videos}")
EmitProgress ==
    /\ component = "runner" /\ pc = "emit"
    /\ sink' = status_callback(sink, Msg("progress", completed, total_videos))
    /\ pc' = "unlock"
    /\ UNCHANGED <<component, total_videos, cpu_count, fstate, queue,
                   nextSubmit, finishedSet, waiterOn, waiterQ, yielded, cur,
                   completed, incs, calls, lock, otherLeft, lateReport,
                   appVars>>

\* The with block of progress_lock ends: the lock after it.
\* (KeptLocked: acquire() without release().)
KeptLocked == "runner"
Released == "free"

Release ==
    /\ component = "runner" /\ pc = "unlock"
    /\ lock' = Released
    /\ cur' = 0
    /\ pc' = "iter"
    /\ UNCHANGED <<component, total_videos, cpu_count, fstate, queue,
                   nextSubmit, finishedSet, waiterOn, waiterQ, yielded,
                   completed, incs, calls, otherLeft, sink, lateReport,
                   appVars>>

\* executor.shutdown(wait=True) returns once every work item has run.
Shutdown ==
    /\ component = "runner" /\ pc = "shutdown"
    /\ \A i \in Items : Done(i)
    /\ pc' = "final"
    /\ UNCHANGED <<component, total_videos, cpu_count, fstate, queue,
                   nextSubmit, finishedSet, waiterOn, waiterQ, yielded, cur,
                   completed, incs, calls, lock, otherLeft, sink,
                   lateReport, appVars>>

\* status_callback("Playlist download completed!"), and the return.
Final ==
    /\ component = "runner" /\ pc = "final"
    /\ sink' = status_callback(sink, Msg("done", 0, 0))
    /\ pc' = "returned"
    /\ UNCHANGED <<component, total_videos, cpu_count, fstate, queue,
                   nextSubmit, finishedSet, waiterOn, waiterQ, yielded, cur,
                   completed, incs, calls, lock, otherLeft, lateReport,
                   appVars>>

\* progress_lock is a module global: the runner of another batch, started
\* by another button press, takes it for its own increment.
OtherAcquire ==
    /\ component = "runner"
    /\ lock = "free"
    /\ otherLeft
    /\ lock' = "other"
    /\ otherLeft' = FALSE
    /\ UNCHANGED <<component, pc, total_videos, cpu_count, fstate, queue,
                   nextSubmit, finishedSet, waiterOn, waiterQ, yielded, cur,
                   completed, incs, calls, sink, lateReport, appVars>>

OtherRelease ==
    /\ component = "runner"
    /\ lock = "other"
    /\ lock' = "free"
    /\ UNCHANGED <<component, pc, total_videos, cpu_count, fstate, queue,
                   nextSubmit, finishedSet, waiterOn, waiterQ, yielded, cur,
                   completed, incs, calls, otherLeft, sink, lateReport,
                   appVars>>

Outcomes == {"true", "false", "raised"}

RunnerNext ==
    \/ Announce \/ Submit \/ BeginAsCompleted
    \/ \E i \in Items : Start(i)
    \/ \E i \in Items, o \in Outcomes : Finish(i, o)
    \/ IterNext \/ IterEnd \/ TryResult \/ Acquire \/ Increment
    \/ EmitProgress \/ Release \/ Shutdown \/ Final
    \/ OtherAcquire \/ OtherRelease

\* The state at the call of download_playlist_concurrently.
RunnerIdle ==
    /\ pc = "announce"
    /\ fstate = [i \in Items |-> "unsubmitted"]
    /\ queue = <<>>
    /\ nextSubmit = 1
    /\ finishedSet = {}
    /\ waiterOn = FALSE
    /\ waiterQ = <<>>
    /\ yielded = {}
    /\ cur = 0
    /\ completed = 0
    /\ incs = [i \in Items |-> 0]
    /\ calls = [i \in Items |-> 0]
    /\ lock = "free"
    /\ sink = <<>>
    /\ lateReport = FALSE

\* ------------------------------------------------------------ file system
Dirs == {"cwd", "meipass"}

\* The steps of download_and_extract_ffmpeg at which it can fail, and "ok".
FailSteps == {"http", "write", "noentry", "extract", "move"}
FetchOutcomes == FailSteps \cup {"ok"}

FileSystem == [exe |-> exe, tmpZips |-> tmpZips, strays |-> strays]

\* download_and_extract_ffmpeg(destination_dir) when it runs as outcome o
\* says: whether it raises, and the files afterwards.
\*   http     requests.get / raise_for_status raises: nothing written yet
\*   write    NamedTemporaryFile(delete=False) exists, writing a chunk raises
\*   noentry  the archive is written, no name ends with ffmpeg.exe
\*   extract  zip_ref.extract raises
\*   move     the entry is extracted under destination_dir, shutil.move raises
\*   ok       ffmpeg.exe is in place and os.remove(tmp_zip_path) has run
\* os.remove is reached on the "ok" path alone (line 47); the except clause
\* (lines 50-52) prints and re-raises.
download_and_extract_ffmpeg(d, o, fs) ==
    CASE o = "http" -> [raised |-> TRUE, fs |-> fs]
      [] o \in {"write", "noentry", "extract"} ->
            [raised |-> TRUE, fs |-> [fs EXCEPT !.tmpZips = @ + 1]]
      [] o = "move" ->
            [raised |-> TRUE,
             fs |-> [fs EXCEPT !.tmpZips = @ + 1, !.strays = @ + 1]]
      [] OTHER ->
            [raised |-> FALSE, fs |-> [fs EXCEPT !.exe[d] = TRUE]]

\* base_dir = sys._MEIPASS if hasattr(sys, "_MEIPASS") else os.path.abspath(".")
base_dir == IF frozen THEN "meipass" ELSE "cwd"

\* What get_ffmpeg_location gives: the returned pair, the files afterwards
\* and the outcomes of the fetches it made.
Located(res, fs, fetched) == [res |-> res, fs |-> fs, fetched |-> fetched]

\* get_ffmpeg_location(): sysOk says whether `ffmpeg -version` exits zero, o
\* how a fetch would go.
\* (LocateRetrying: a locator that fetches once more after a failed fetch.)
LocateRetrying(sysOk, o, fs) ==
    IF fs.exe[base_dir] THEN Located(<<TRUE, base_dir>>, fs, <<>>)
    ELSE IF sysOk THEN Located(<<TRUE, "">>, fs, <<>>)
    ELSE LET f == download_and_extract_ffmpeg(base_dir, o, fs)
             g == download_and_extract_ffmpeg(base_dir, "ok", f.fs)
         IN  IF f.raised
             THEN Located(<<TRUE, base_dir>>, g.fs, <<o, "ok">>)
             ELSE Located(<<TRUE, base_dir>>, f.fs, <<o>>)
get_ffmpeg_location(sysOk, o, fs) ==
    IF fs.exe[base_dir] THEN Located(<<TRUE, base_dir>>, fs, <<>>)
    ELSE IF sysOk THEN Located(<<TRUE, "">>, fs, <<>>)
    ELSE LET f == download_and_extract_ffmpeg(base_dir, o, fs)
         IN  IF f.raised
             THEN Located(<<FALSE, "">>, f.fs, <<o>>)
             ELSE IF f.fs.exe[base_dir]
                  THEN Located(<<TRUE, base_dir>>, f.fs, <<o>>)
                  ELSE Located(<<FALSE, "">>, f.fs, <<o>>)

\* The record kept of a get_ffmpeg_location call.
LocateRecord(sysOk, fs, r) ==
    [called |-> TRUE,
     localBefore |-> fs.exe[base_dir],
     sysOk |-> sysOk,
     fetched |-> r.fetched,
     res |-> r.res,
     newTmp |-> r.fs.tmpZips - fs.tmpZips,
     newStrays |-> r.fs.strays - fs.strays,
     newExe |-> {d \in Dirs : r.fs.exe[d] /\ ~fs.exe[d]}]

\* Whether outcomes `fetched`, run in this order after `failedBefore`, hold a
\* fetch made after a failed one.
RECURSIVE FetchAfterFail(_, _)
FetchAfterFail(failedBefore, fetched) ==
    IF fetched = <<>> THEN FALSE
    ELSE failedBefore \/ FetchAfterFail(Head(fetched) # "ok", Tail(fetched))

AnyFailed(fetched) == \E k \in DOMAIN fetched : fetched[k] # "ok"

\* FFMPEG_CACHE = get_ffmpeg_location(), at import
ImportModule(sysOk, o) ==
    /\ LET r == get_ffmpeg_location(sysOk, o, FileSystem)
       IN  /\ FFMPEG_CACHE' = r.res
           /\ exe' = r.fs.exe
           /\ tmpZips' = r.fs.tmpZips
           /\ strays' = r.fs.strays
           /\ lastLocate' = LocateRecord(sysOk, FileSystem, r)
           /\ fetchFailed' = (fetchFailed \/ AnyFailed(r.fetched))
           /\ refetched' = (refetched \/ FetchAfterFail(fetchFailed, r.fetched))
    /\ appPc' = "mainloop"
    /\ UNCHANGED <<component, runnerVars, frozen, clicks, units, lastHandler>>

import_yt_downloader ==
    /\ component = "app" /\ appPc = "import"
    /\ \E sysOk \in BOOLEAN, o \in FetchOutcomes : ImportModule(sysOk, o)

\* ------------------------------------------------------------- user input
\* Text is a sequence of characters: " " is white space, "p" stands for the
\* substring "playlist", "d" is the one directory that exists.
UrlInputs == {<<>>, <<" ">>, <<"v">>, <<" ", "p", " ">>}
DestInputs == {<<>>, <<" ">>, <<" ", "d">>, <<"x">>}

\* str.strip()
RECURSIVE LStrip(_)
LStrip(s) == IF s # <<>> /\ Head(s) = " " THEN LStrip(Tail(s)) ELSE s
RECURSIVE RStrip(_)
RStrip(s) ==
    IF s # <<>> /\ s[Len(s)] = " " THEN RStrip(SubSeq(s, 1, Len(s) - 1)) ELSE s
Strip(s) == RStrip(LStrip(s))

\* os.path.isdir(path)
isdir(path) == path = <<"d">>

\* url = url_entry.get().strip(); if not url: ... return
\* (UrlAcceptedRaw: the check without strip().)
UrlAcceptedRaw(raw) == raw # <<>>
UrlAccepted(raw) == Strip(raw) # <<>>

\* download_path = dest_var.get().strip()
\* if not download_path or not os.path.isdir(download_path): ... return
DestAccepted(raw) == Strip(raw) # <<>> /\ isdir(Strip(raw))

\* "playlist" in url.lower()
IsPlaylist(url) == \E k \in DOMAIN url : url[k] = "p"

\* --------------------------------------------------------------- handlers
\* start_video_download / start_audio_download, which differ in the target
\* of the thread alone. rawUrl and rawDest are the form's fields, o1 how the
\* handler's own fetch would go, sysOk and o2 what the get_ffmpeg_location
\* call after it would meet.
HandlerResult(rawUrl, rawDest, o1, sysOk, o2) ==
    IF FFMPEG_CACHE[1]
    THEN [cache |-> FFMPEG_CACHE, fs |-> FileSystem, fetched |-> <<>>,
          located |-> FALSE, loc |-> lastLocate,
          spawn |-> UrlAccepted(rawUrl) /\ DestAccepted(rawDest)]
    ELSE LET f == download_and_extract_ffmpeg("cwd", o1, FileSystem)
             r == get_ffmpeg_location(sysOk, o2, f.fs)
         IN  IF f.raised
             THEN [cache |-> FFMPEG_CACHE, fs |-> f.fs, fetched |-> <<o1>>,
                   located |-> FALSE, loc |-> lastLocate, spawn |-> FALSE]
             ELSE [cache |-> r.res, fs |-> r.fs,
                   fetched |-> <<o1>> \o r.fetched,
                   located |-> TRUE, loc |-> LocateRecord(sysOk, f.fs, r),
                   spawn |-> /\ r.res[1]
                             /\ UrlAccepted(rawUrl)
                             /\ DestAccepted(rawDest)]

Handler(target, rawUrl, rawDest, o1, sysOk, o2) ==
    /\ clicks < MaxClicks
    /\ LET h == HandlerResult(rawUrl, rawDest, o1, sysOk, o2)
       IN  /\ FFMPEG_CACHE' = h.cache
           /\ exe' = h.fs.exe
           /\ tmpZips' = h.fs.tmpZips
           /\ strays' = h.fs.strays
           /\ lastLocate' = h.loc
           /\ fetchFailed' = (fetchFailed \/ AnyFailed(h.fetched))
           /\ refetched' = (refetched \/ FetchAfterFail(fetchFailed, h.fetched))
           /\ units' = IF h.spawn
                       THEN Append(units, [target |-> target,
                                           url |-> Strip(rawUrl),
                                           path |-> Strip(rawDest),
                                           state |-> "spawned"])
                       ELSE units
           /\ lastHandler' = [called |-> TRUE,
                              rawUrl |-> rawUrl,
                              rawDest |-> rawDest,
                              availBefore |-> FFMPEG_CACHE[1],
                              fetched |-> h.fetched,
                              located |-> h.located,
                              spawned |-> Len(units') - Len(units)]
    /\ clicks' = clicks + 1
    /\ UNCHANGED <<component, runnerVars, appPc, frozen>>

\* What a handler invocation can read, <<rawUrl, rawDest, o1, sysOk, o2>>.
\* With ffmpeg cached as available nothing is fetched or probed; a failed
\* fetch ends the handler before the probe and before the form is read.
HandlerInputs ==
    IF FFMPEG_CACHE[1]
    THEN {<<u, d, "ok", TRUE, "ok">> : u \in UrlInputs, d \in DestInputs}
    ELSE {<<<<>>, <<>>, o1, TRUE, "ok">> : o1 \in FailSteps}
         \cup {<<u, d, "ok", e[1], e[2]>> :
                  u \in UrlInputs, d \in DestInputs,
                  e \in BOOLEAN \X FetchOutcomes}

start_video_download ==
    /\ component = "app" /\ appPc = "mainloop"
    /\ \E in \in HandlerInputs :
          Handler("video", in[1], in[2], in[3], in[4], in[5])

start_audio_download ==
    /\ component = "app" /\ appPc = "mainloop"
    /\ \E in \in HandlerInputs :
          Handler("audio", in[1], in[2], in[3], in[4], in[5])

\* process_video_download / process_audio_download, the body of a spawned
\* thread: a playlist URL is expanded by get_video_urls (found: the list is
\* not empty) and handed to download_playlist_concurrently, any other URL
\* goes to download_video / download_audio once.
ProcessDownload(u, found) ==
    /\ component = "app"
    /\ units[u].state = "spawned"
    /\ units' = [units EXCEPT ![u].state =
                    IF IsPlaylist(units[u].url)
                    THEN IF found THEN "batch" ELSE "empty"
                    ELSE "single"]
    /\ UNCHANGED <<component, runnerVars, appPc, frozen, FFMPEG_CACHE, exe,
                   tmpZips, strays, clicks, lastLocate, lastHandler,
                   fetchFailed, refetched>>

process_video_download ==
    \E u \in DOMAIN units, found \in BOOLEAN :
        units[u].target = "video" /\ ProcessDownload(u, found)

process_audio_download ==
    \E u \in DOMAIN units, found \in BOOLEAN :
        units[u].target = "audio" /\ ProcessDownload(u, found)

AppNext ==
    \/ import_yt_downloader
    \/ start_video_download
    \/ start_audio_download
    \/ process_video_download
    \/ process_audio_download

\* ---------------------------------------------------------- specification
\* The application before yt_downloader.py's import-time code has run.
AppIdle ==
    /\ appPc = "import"
    /\ FFMPEG_CACHE = <<FALSE, "">>
    /\ tmpZips = 0
    /\ strays = 0
    /\ clicks = 0
    /\ units = <<>>
    /\ lastLocate = [called |-> FALSE]
    /\ lastHandler = [called |-> FALSE]
    /\ fetchFailed = FALSE
    /\ refetched = FALSE

\* One call of download_playlist_concurrently on a list of 0..MaxItems URLs.
RunnerInit ==
    /\ component = "runner"
    /\ total_videos \in 0..MaxItems
    /\ cpu_count \in 0..MaxCpu
    /\ otherLeft \in BOOLEAN
    /\ RunnerIdle
    /\ frozen = FALSE
    /\ exe = [d \in Dirs |-> FALSE]
    /\ AppIdle

\* One run of the application: a script or a PyInstaller bundle, with or
\* without an ffmpeg.exe beside it.
AppInit ==
    /\ component = "app"
    /\ total_videos = 0
    /\ cpu_count = 0
    /\ otherLeft = FALSE
    /\ RunnerIdle
    /\ frozen \in BOOLEAN
    /\ exe \in [Dirs -> BOOLEAN]
    /\ ~frozen => ~exe["meipass"]
    /\ AppIdle

Init == RunnerInit \/ AppInit

Next == RunnerNext \/ AppNext

Spec == Init /\ [][Next]_vars

\* The submitting thread, the pool's workers and the other batch are threads
\* of the operating system: each runs while it can, and every call of
\* download_func is taken to return or raise.
RunnerThread ==
    \/ Announce \/ Submit \/ BeginAsCompleted \/ IterNext \/ IterEnd
    \/ TryResult \/ Acquire \/ Increment \/ EmitProgress \/ Release
    \/ Shutdown \/ Final
Workers ==
    \/ \E i \in Items : Start(i)
    \/ \E i \in Items, o \in Outcomes : Finish(i, o)

FairSpec ==
    /\ Spec
    /\ WF_vars(RunnerThread)
    /\ WF_vars(Workers)
    /\ WF_vars(OtherRelease)
\* ------------------------------------------------------------------ claims
\* The worker count the program is to use: the number of processing units,
\* 4 when os.cpu_count() gives None.
WorkerCount == IF cpu_count = 0 THEN 4 ELSE cpu_count

Terminal(i) == fstate[i] \in Outcomes
Returned == pc = "returned"

\* Positions of the sink's messages of one kind.
Positions(kind) == {k \in DOMAIN sink : sink[k].kind = kind}

\* Queued -> Running -> terminal, as a rank.
Rank(st) ==
    CASE st = "unsubmitted" -> 0
      [] st = "queued" -> 1
      [] st = "running" -> 2
      [] OTHER -> 3

\* Items whose loop iteration has passed the increment.
Processed == {i \in yielded : i # cur \/ pc \in {"emit", "unlock"}}

C1_State ==
    component = "runner" =>
        /\ \A i \in Items : incs[i] <= 1 /\ (incs[i] = 1 => Terminal(i))
        /\ Cardinality(Positions("progress")) <= completed
        /\ \A k, l \in Positions("progress") :
              sink[k].a = sink[l].a => k = l
        /\ Returned =>
              /\ completed = total_videos
              /\ \A i \in Items : Terminal(i) /\ incs[i] = 1
              /\ {sink[k].a : k \in Positions("progress")} = 1..total_videos
              /\ \A k \in Positions("progress") : sink[k].b = total_videos

C1_Step ==
    \A i \in Items :
        /\ Rank(fstate'[i]) \in {Rank(fstate[i]), Rank(fstate[i]) + 1}
        /\ Terminal(i) => fstate'[i] = fstate[i]

\* C1: conservation of completions. Every item goes Queued -> Running -> one
\* terminal state and never back, causes one increment of `completed` and one
\* "Downloads completed k/N" message, and `completed` is N at the return.
C1_Conservation == [](C1_State) /\ [][C1_Step]_vars

C1_Witness ==
    /\ component = "runner" /\ Returned
    /\ total_videos = 3
    /\ \E i, j, k \in Items :
          fstate[i] = "true" /\ fstate[j] = "false" /\ fstate[k] = "raised"
\* Items whose try/except of the loop body is over.
PastResult == {i \in yielded : i # cur \/ pc # "result"}

\* C2: fault isolation. A raising download_func is caught and reported with
\* the item's URL, the item is counted, no exception leaves the runner, and
\* at the return every item is terminal and counted.
C2_FaultIsolation ==
    component = "runner" =>
        /\ pc # "crashed"
        /\ \A i \in PastResult :
              fstate[i] = "raised" =>
                  Cardinality({k \in Positions("exception") :
                                  sink[k].a = i}) = 1
        /\ \A k \in Positions("exception") :
              sink[k].a \in PastResult /\ fstate[sink[k].a] = "raised"
        /\ \A i \in Processed : incs[i] = 1
        /\ Returned =>
              /\ completed = total_videos
              /\ Processed = Items
              /\ \A i \in Items : Terminal(i)

C2_Witness ==
    /\ component = "runner" /\ Returned
    /\ total_videos = 3
    /\ \A i \in Items : fstate[i] = "raised"
    /\ completed = 3

C3_State ==
    component = "runner" =>
        /\ completed \in 0..total_videos
        /\ completed = Cardinality(Processed)
        /\ pc \in {"incr", "emit", "unlock"} => lock = "runner"

C3_Step ==
    /\ completed' >= completed
    /\ completed' # completed => lock = "runner" /\ lock' = "runner"

\* C3: the progress counter stays within 0..total, never decreases, equals
\* the number of items the runner has processed, and changes only while the
\* runner holds progress_lock.
C3_ProgressCounter == [](C3_State) /\ [][C3_Step]_vars

C3_Witness ==
    /\ component = "runner"
    /\ pc = "emit" /\ completed = 2 /\ lock = "runner"
    /\ ~otherLeft

InQueue(i) == \E k \in DOMAIN queue : queue[k] = i

C4_State ==
    component = "runner" =>
        /\ Cardinality(Running) <= WorkerCount
        /\ \A i \in Items :
              i < nextSubmit /\ ~Terminal(i) /\ i \notin Running =>
                  fstate[i] = "queued" /\ InQueue(i)

C5_Ordering ==
    component = "runner" =>
        /\ sink # <<>> => sink[1] = Msg("found", total_videos, WorkerCount)
        /\ Cardinality(Positions("found")) <= 1
        /\ (\E i \in Items : fstate[i] # "unsubmitted") => sink # <<>>
        /\ \A k, l \in Positions("progress") : k < l => sink[k].a < sink[l].a
        /\ Positions("done") # {} =>
              /\ Positions("done") = {Len(sink)}
              /\ {sink[k].a : k \in Positions("progress")} = 1..total_videos
              /\ \A i \in Items : Terminal(i)
              /\ Returned
        /\ Returned => Positions("done") # {}
        /\ ~lateReport

C5_Witness ==
    /\ component = "runner" /\ Returned
    /\ total_videos = 3 /\ cpu_count = 2
    /\ \A i \in Items : fstate[i] = "true"
    /\ Len(sink) = 5

\* C6: termination. With the threads scheduled fairly and every call of
\* download_func ending, the runner returns, having emitted the terminal
\* message, with every item run once, terminal and counted.
C6_Termination ==
    component = "runner" =>
        <>( /\ Returned
            /\ Positions("done") # {}
            /\ \A i \in Items : Terminal(i) /\ calls[i] = 1 /\ incs[i] = 1 )

C6_Witness ==
    /\ component = "runner" /\ Returned
    /\ total_videos = 3 /\ cpu_count = 1
    /\ \E i \in Items : fstate[i] = "false"
    /\ \A i \in Items : calls[i] = 1

StartedInOrder ==
    \A i, j \in Items : i < j /\ Rank(fstate[j]) >= 2 => Rank(fstate[i]) >= 2
Sequential ==
    \A i, j \in Items : i < j /\ Rank(fstate[j]) >= 2 => Terminal(i)
ObservedInOrder ==
    \A i, j \in Items : i < j /\ j \in yielded => i \in yielded

\* C7 as stated: with one worker at most one call runs at a time, the items
\* start in submission order and the runner observes their completions in
\* submission order.
C7_Original ==
    component = "runner" /\ WorkerCount = 1 =>
        /\ Cardinality(Running) <= 1
        /\ StartedInOrder
        /\ ObservedInOrder

\* C7, amended: with one worker at most one call runs at a time and the
\* items start and finish in submission order; the runner observes an item
\* before an earlier one only when the earlier one had already finished at
\* the start of as_completed and is still waiting to be yielded.
C7_Amended ==
    component = "runner" /\ WorkerCount = 1 =>
        /\ Cardinality(Running) <= 1
        /\ StartedInOrder
        /\ Sequential
        /\ \A i, j \in Items :
              i < j /\ j \in yielded /\ i \notin yielded => i \in finishedSet

C7_Witness ==
    /\ component = "runner" /\ WorkerCount = 1
    /\ 2 \in yielded /\ 1 \notin yielded /\ 1 \in finishedSet

\* C8: the pre-flight checks. A handler invocation spawns one thread when
\* ffmpeg is available (cached, or after a successful fetch and re-resolve),
\* the stripped URL is not empty and the stripped destination is a
\* directory, and none otherwise; downloads and playlist expansions run in
\* spawned threads alone, each on a non-empty URL and an existing directory.
C8_Preflight ==
    component = "app" /\ lastHandler.called =>
        LET h == lastHandler
            available ==
                \/ h.availBefore
                \/ /\ h.fetched # <<>> /\ h.fetched[1] = "ok"
                   /\ h.located /\ FFMPEG_CACHE[1]
            urlOk == Strip(h.rawUrl) # <<>>
            destOk == isdir(Strip(h.rawDest))
        IN  /\ h.spawned = (IF available /\ urlOk /\ destOk THEN 1 ELSE 0)
            /\ Len(units) <= clicks
            /\ \A u \in DOMAIN units :
                  units[u].url # <<>> /\ isdir(units[u].path)
            /\ h.availBefore => h.fetched = <<>>

C8_Witness ==
    /\ component = "app" /\ lastHandler.called
    /\ ~lastHandler.availBefore
    /\ lastHandler.spawned = 1
    /\ units[Len(units)].state = "batch"

\* C9 as stated: get_ffmpeg_location with no local ffmpeg.exe, no ffmpeg on
\* the path and a fetch that fails returns (False, "") and leaves nothing
\* new on disk.
C9_Original ==
    ( /\ component = "app" /\ lastLocate.called
      /\ ~lastLocate.localBefore /\ ~lastLocate.sysOk
      /\ Len(lastLocate.fetched) = 1 /\ lastLocate.fetched[1] \in FailSteps )
    => /\ lastLocate.res = <<FALSE, "">>
       /\ lastLocate.newTmp = 0
       /\ lastLocate.newStrays = 0
       /\ lastLocate.newExe = {}

\* C10 as stated: no retries anywhere.
C10_Original ==
    /\ lastLocate.called => Len(lastLocate.fetched) <= 1
    /\ ~refetched
    /\ lastHandler.called => Len(lastHandler.fetched) <= 1
    /\ \A i \in Items : calls[i] <= 1 /\ (Returned => calls[i] = 1)

\* C10, amended: one get_ffmpeg_location call fetches at most once and every
\* item's download_func is called once; a handler that finds FFMPEG_CACHE
\* unavailable fetches again, whatever failed before, and one handler
\* invocation makes at most two fetch attempts.
C10_Amended ==
    /\ lastLocate.called => Len(lastLocate.fetched) <= 1
    /\ lastHandler.called =>
          /\ Len(lastHandler.fetched) <= 2
          /\ lastHandler.fetched # <<>> <=> ~lastHandler.availBefore
    /\ \A i \in Items : calls[i] <= 1 /\ (Returned => calls[i] = 1)

C10_Witness ==
    /\ component = "app" /\ lastHandler.called
    /\ refetched
    /\ Len(lastHandler.fetched) = 2
====
